---- MODULE Spec2Model ----
(***************************************************************************)
(* Model of the Brain command-line chat client.                            *)
(*                                                                         *)
(*   src/src/chat.rs    Chat: the session history, generate_response,      *)
(*                      generate_title, clear_history, get_thinking        *)
(*   src/src/client.rs  OllamaClient: the NDJSON stream loop, execute_tool *)
(*                      and the tool-result continuation                   *)
(*   src/src/main.rs    the read-eval-print loop over one Chat             *)
(*   src/src/mcp.rs     Mcp: load_setting over the entries of mcp.json     *)
(*                                                                         *)
(* Texts are sequences of characters.  The two reasoning markers are       *)
(* single characters of the alphabet, "<think>" and "</think>".            *)
(***************************************************************************)
EXTENDS Integers, Sequences, FiniteSets, TLC

VARIABLES
    \* ---- Chat::get_thinking applied to one text (SpecThink)
    text,            \* the text handed to get_thinking
    tpc,             \* "ready" | "strip" | "extract" ("off" outside SpecThink)
    thinking_result, \* the Option<String> get_thinking returned
    stored,          \* what generate_response leaves in history.last().content
    \* ---- Chat (SpecChat) and the loop of main over it (SpecMain)
    history,         \* Chat.history
    cpc,             \* "running" | "panicked" (generate_title unwraps its result)
                     \* | "exited" (the loop of main was left)
    pre,             \* Chat.history when the last operation was called
    lastOp,          \* "none" | "response" | "title" | "clear"
    lastRes,         \* what the backend answered to the last operation
    title,           \* what the last generate_title returned
    sent,            \* the turns an operation handed to the backend with its request
    input,           \* the line main last read, trimmed (None before the first)
    \* ---- OllamaClient (Spec)
    kpc,             \* "idle" | "sending" | "streaming" | "ok" | "err"
    messages,        \* ChatRequest.messages of the request last issued
    nreq,            \* chat requests issued in this exchange
    body,            \* the bytes of the response body
    pos,             \* how many of them stream.next() has handed over
    delivery,        \* chunks read from this body: "none" | "one" | "several"
    whole_lines,     \* each of them was one line with its terminator
    accumulated_content,
    current_tool_calls,
    done_seen,       \* this call processed a done=true frame and went on (the break)
    executed,        \* function names passed to execute_tool in the last tool pass
    failure,         \* "none" | "send" | "status" | "chunk" | "tool"
    \* ---- Mcp::load_setting (SpecMcp)
    mpc,             \* "start" | "loop" | "returned" | "panicked"
    mcp_settings,    \* what load_setting_file returned
    idx,             \* the entry the for loop takes next
    tools,           \* Mcp.tools
    served           \* per entry taken so far, what its server answered

thinkVars == <<text, tpc, thinking_result, stored>>

chatVars == <<history, cpc, pre, lastOp, lastRes, title, sent, input>>

clientVars == <<kpc, messages, nreq, body, pos, delivery, whole_lines,
                accumulated_content, current_tool_calls, done_seen, executed,
                failure>>

mcpVars == <<mpc, mcp_settings, idx, tools, served>>

vars == <<thinkVars, chatVars, clientVars, mcpVars>>

(***************************************************************************)
(* Bounds                                                                  *)
(***************************************************************************)
MaxTextLen == 5

\* successful exchanges kept in one history before it is cleared
MaxExchanges == 2

\* lines in one response body
MaxLines == 2

\* chat requests in one exchange; the backend asks for no tool in answer to the last
MaxRequests == 2

\* entries in mcp.json
MaxEntries == 2

(***************************************************************************)
(* Texts                                                                   *)
(***************************************************************************)
ThinkOpen == "<think>"

ThinkClose == "</think>"

Char == {ThinkOpen, ThinkClose, " ", "a", "b"}

SeqsUpTo(S, n) == UNION {[1..k -> S] : k \in 0..n}

Texts == SeqsUpTo(Char, MaxTextLen)

\* Option<String>
None == [some |-> FALSE, val |-> <<>>]

Some(v) == [some |-> TRUE, val |-> v]

\* char::is_whitespace, the class \s of the regex and of str::trim
IsWs(c) == c = " "

\* first index k >= i that is past the end of t or holds no whitespace
SkipWs(t, i) ==
    IF \E k \in i..Len(t) : ~IsWs(t[k])
    THEN CHOOSE k \in i..Len(t) :
            /\ ~IsWs(t[k])
            /\ \A j \in i..(k - 1) : IsWs(t[j])
    ELSE Len(t) + 1

\* last index k that holds no whitespace, 0 when there is none
LastNonWs(t) ==
    IF \E k \in 1..Len(t) : ~IsWs(t[k])
    THEN CHOOSE k \in 1..Len(t) :
            /\ ~IsWs(t[k])
            /\ \A j \in (k + 1)..Len(t) : IsWs(t[j])
    ELSE 0

\* str::trim
Trim(t) == SubSeq(t, SkipWs(t, 1), LastNonWs(t))

\* does pat occur in t at index i
OccursAt(t, pat, i) ==
    /\ i + Len(pat) - 1 <= Len(t)
    /\ \A j \in 1..Len(pat) : t[i + j - 1] = pat[j]

RECURSIVE ReplaceFrom(_, _, _)
\* str::replace(pat, ""): every non-overlapping occurrence, left to right
ReplaceFrom(t, pat, i) ==
    IF i > Len(t) THEN <<>>
    ELSE IF Len(pat) > 0 /\ OccursAt(t, pat, i)
         THEN ReplaceFrom(t, pat, i + Len(pat))
         ELSE <<t[i]>> \o ReplaceFrom(t, pat, i + 1)

Remove(t, pat) == ReplaceFrom(t, pat, 1)

(***************************************************************************)
(* Chat::thinking_regex   (?s)<think>\s*(.*?)\s*(?:</think>|\z)            *)
(*                                                                         *)
(* Regex::captures returns the leftmost match.  The alternative \z lets    *)
(* the pattern match at every "<think>", so the match starts at the first  *)
(* one.  The first \s* is greedy and never has to give anything back; the  *)
(* lazy group ends at the first index from which optional whitespace leads *)
(* to "</think>" or to the end of the text.                                *)
(***************************************************************************)
HasOpen(t) == \E i \in 1..Len(t) : t[i] = ThinkOpen

FirstOpen(t) ==
    CHOOSE i \in 1..Len(t) :
        /\ t[i] = ThinkOpen
        /\ \A j \in 1..(i - 1) : t[j] # ThinkOpen

\* can \s*(?:</think>|\z) match from index e
TailMatches(t, e) ==
    LET k == SkipWs(t, e) IN k = Len(t) + 1 \/ t[k] = ThinkClose

GroupEnd(t, s) ==
    CHOOSE e \in s..(Len(t) + 1) :
        /\ TailMatches(t, e)
        /\ \A d \in s..(e - 1) : ~TailMatches(t, d)

\* the pattern without its \z alternative: an unclosed "<think>" matches nothing
thinking_regex_closed_only(t) ==
    IF \E i \in 1..Len(t) : t[i] = ThinkOpen /\ TailMatches(t, SkipWs(t, i + 1))
          /\ \E c \in (i + 1)..Len(t) : t[c] = ThinkClose
    THEN LET p == CHOOSE i \in 1..Len(t) :
                     /\ t[i] = ThinkOpen
                     /\ \E c \in (i + 1)..Len(t) : t[c] = ThinkClose
                     /\ \A j \in 1..(i - 1) :
                           ~(t[j] = ThinkOpen /\ \E c \in (j + 1)..Len(t) : t[c] = ThinkClose)
             s == SkipWs(t, p + 1)
             c == CHOOSE c \in (p + 1)..Len(t) :
                     t[c] = ThinkClose /\ \A j \in (p + 1)..(c - 1) : t[j] # ThinkClose
         IN  [matched |-> TRUE, g0 |-> SubSeq(t, p, c), g1 |-> Trim(SubSeq(t, p + 1, c - 1))]
    ELSE [matched |-> FALSE, g0 |-> <<>>, g1 |-> <<>>]

\* captures.get(0) and captures.get(1) of the leftmost match
thinking_regex(t) ==
    IF ~HasOpen(t) THEN [matched |-> FALSE, g0 |-> <<>>, g1 |-> <<>>]
    ELSE LET p == FirstOpen(t)
             s == SkipWs(t, p + 1)
             e == GroupEnd(t, s)
             k == SkipWs(t, e)
             last == IF k = Len(t) + 1 THEN Len(t) ELSE k
         IN  [matched |-> TRUE,
              g0 |-> SubSeq(t, p, last),
              g1 |-> SubSeq(t, s, e - 1)]

\* get_thinking reading group 0 where the code reads group 1
get_thinking_group0(t, is_result) ==
    LET captures == thinking_regex(t) IN
    IF captures.matched
    THEN IF is_result
         THEN Some(Trim(Remove(t, captures.g0)))
         ELSE Some(captures.g0)
    ELSE IF is_result THEN Some(t) ELSE None

\* Chat::get_thinking(text, is_result)
get_thinking(t, is_result) ==
    LET captures == thinking_regex(t) IN
    IF captures.matched
    THEN IF is_result
         THEN Some(Trim(Remove(t, captures.g0)))
         ELSE Some(captures.g1)
    ELSE IF is_result THEN Some(t) ELSE None

\* Chat::generate_response, the content left in the pushed assistant turn
StoredContent(t) ==
    LET r == get_thinking(t, TRUE) IN IF r.some THEN r.val ELSE t

(***************************************************************************)
(* SpecThink: get_thinking applied to every text up to MaxTextLen          *)
(***************************************************************************)
ThinkIdle ==
    /\ text = <<>>
    /\ tpc = "off"
    /\ thinking_result = None
    /\ stored = <<>>

ChatIdle ==
    /\ history = <<>>
    /\ cpc = "off"
    /\ pre = <<>>
    /\ lastOp = "none"
    /\ lastRes = [ok |-> TRUE, err |-> "none", tool_pass |-> FALSE, text |-> <<>>]
    /\ title = <<>>
    /\ sent = <<>>
    /\ input = None

ClientIdle ==
    /\ kpc = "off"
    /\ messages = <<>>
    /\ nreq = 0
    /\ body = <<>>
    /\ pos = 0
    /\ delivery = "none"
    /\ whole_lines = TRUE
    /\ accumulated_content = <<>>
    /\ current_tool_calls = <<>>
    /\ done_seen = FALSE
    /\ executed = <<>>
    /\ failure = "none"

McpIdle ==
    /\ mpc = "off"
    /\ mcp_settings = <<>>
    /\ idx = 0
    /\ tools = <<>>
    /\ served = <<>>

ThinkInit ==
    /\ text \in Texts
    /\ tpc = "ready"
    /\ thinking_result = None
    /\ stored = <<>>
    /\ ChatIdle
    /\ ClientIdle
    /\ McpIdle

\* get_thinking(&text, true) as generate_response calls it
ThinkStrip ==
    /\ tpc = "ready"
    /\ tpc' = "strip"
    /\ thinking_result' = get_thinking(text, TRUE)
    /\ stored' = StoredContent(text)
    /\ UNCHANGED <<text, chatVars, clientVars, mcpVars>>

\* get_thinking(&content, false) as generate_title calls it
ThinkExtract ==
    /\ tpc = "ready"
    /\ tpc' = "extract"
    /\ thinking_result' = get_thinking(text, FALSE)
    /\ UNCHANGED <<text, stored, chatVars, clientVars, mcpVars>>

ThinkNext == ThinkStrip \/ ThinkExtract

SpecThink == ThinkInit /\ [][ThinkNext]_vars

(***************************************************************************)
(* Claims about get_thinking                                               *)
(***************************************************************************)
HasClose(t) == \E i \in 1..Len(t) : t[i] = ThinkClose

\* the text holds a start marker and no end marker
OnlyOpen(t) == HasOpen(t) /\ ~HasClose(t)

BeforeOpen(t) == SubSeq(t, 1, FirstOpen(t) - 1)

AfterOpen(t) == SubSeq(t, FirstOpen(t) + 1, Len(t))

IsMarked(t) ==
    /\ Len(t) >= 2
    /\ t[1] = ThinkOpen
    /\ \A i \in 2..Len(t) : t[i] # ThinkOpen
    /\ Cardinality({i \in 1..Len(t) : t[i] = ThinkClose}) = 1

ClosePos(t) == CHOOSE i \in 1..Len(t) : t[i] = ThinkClose

PartR(t) == SubSeq(t, 2, ClosePos(t) - 1)

PartA(t) == SubSeq(t, ClosePos(t) + 1, Len(t))

\* C9 as stated: for <think> R </think> A, strip mode returns A trimmed and
\* extract mode returns exactly R.
C9_ExtractExactlyR ==
    IsMarked(text) =>
        /\ tpc = "strip" => thinking_result = Some(Trim(PartA(text)))
        /\ tpc = "extract" => thinking_result = Some(PartR(text))

\* C9 amended: for <think> R </think> A, strip mode returns A trimmed and extract
\* mode returns R with its leading and trailing whitespace removed.
C9_ExtractTrimmedR ==
    IsMarked(text) =>
        /\ tpc = "strip" => thinking_result = Some(Trim(PartA(text)))
        /\ tpc = "extract" => thinking_result = Some(Trim(PartR(text)))

C9_Witness ==
    /\ tpc = "extract"
    /\ text = <<ThinkOpen, " ", "a", ThinkClose, "b">>
    /\ thinking_result = Some(<<"a">>)

(***************************************************************************)
(* Chat (src/src/chat.rs)                                                  *)
(***************************************************************************)
Message(role, content, tool_calls) ==
    [role |-> role, content |-> content, tool_calls |-> tool_calls]

\* ChatMessage::user
UserMessage(prompt) == Message("user", prompt, <<>>)

Prompts == {<<"a">>, <<"b">>}

\* the fixed instruction of generate_title
TitlePrompt == <<"t">>

\* texts a backend answers with: plain, reasoning then answer, reasoning cut off
ResponseTexts ==
    {<<"a">>, <<ThinkOpen, "b", ThinkClose, "a">>, <<ThinkOpen, "b">>}

TransportErrors == {"connect", "status", "receive"}

\* What coordinator.chat / send_chat_messages_with_history comes back with: Ok with
\* the final assistant text, after a tool pass or without one, or Err.
Outcomes ==
    {[ok |-> TRUE, err |-> "none", tool_pass |-> tp, text |-> t] :
        tp \in BOOLEAN, t \in ResponseTexts}
    \cup
    {[ok |-> FALSE, err |-> e, tool_pass |-> tp, text |-> <<>>] :
        e \in TransportErrors, tp \in BOOLEAN}

\* generate_response pushing the user turn before the request is made
generate_response_push_first(h, prompt, res) ==
    IF ~res.ok THEN Append(h, UserMessage(prompt))
    ELSE h \o <<UserMessage(prompt),
                Message("assistant", StoredContent(res.text), <<>>)>>

\* generate_response pushing res.message before the user turn
generate_response_swapped(h, prompt, res) ==
    IF ~res.ok THEN h
    ELSE h \o <<Message("assistant", StoredContent(res.text), <<>>),
                UserMessage(prompt)>>

\* Chat::generate_response: self.history after the call.  The coordinator works
\* on self.history.clone(); only the user turn and res.message are pushed.
generate_response_history(h, prompt, res) ==
    IF ~res.ok THEN h
    ELSE h \o <<UserMessage(prompt),
                Message("assistant", StoredContent(res.text), <<>>)>>

\* Chat::generate_response: what the coordinator is built from and asked, the
\* clone of self.history followed by the user turn
generate_response_request(h, prompt) == Append(h, UserMessage(prompt))

\* Chat::generate_title: the clone of self.history followed by the instruction
generate_title_request(h) == Append(h, UserMessage(TitlePrompt))

\* generate_title handing &mut self.history itself to
\* send_chat_messages_with_history, which appends the instruction and the answer
generate_title_on_history(h, res) ==
    h \o <<UserMessage(TitlePrompt), Message("assistant", res.text, <<>>)>>

\* Chat::generate_title: self.history after the call (the request is made on a
\* clone of it)
generate_title_history(h, res) == h

\* clear_history dropping nothing
clear_history_keeps(h) == h

\* Chat::clear_history: self.history after the call
clear_history(h) == <<>>

\* generate_title returning the response text whatever it holds
generate_title_raw(res) == res.text

\* Chat::generate_title: the returned title
generate_title_result(res) ==
    LET r == get_thinking(res.text, FALSE) IN IF r.some THEN r.val ELSE res.text

ChatInit ==
    /\ history = <<>>
    /\ cpc = "running"
    /\ pre = <<>>
    /\ lastOp = "none"
    /\ lastRes = [ok |-> TRUE, err |-> "none", tool_pass |-> FALSE, text |-> <<>>]
    /\ title = <<>>
    /\ sent = <<>>
    /\ input = None
    /\ ThinkIdle
    /\ ClientIdle
    /\ McpIdle

GenerateResponse ==
    /\ cpc = "running"
    /\ \E prompt \in Prompts, res \in Outcomes :
          /\ res.ok => Len(history) + 2 <= 2 * MaxExchanges
          /\ sent' = generate_response_request(history, prompt)
          /\ history' = generate_response_history(history, prompt, res)
          /\ lastRes' = res
    /\ pre' = history
    /\ lastOp' = "response"
    /\ UNCHANGED <<cpc, title, input, thinkVars, clientVars, mcpVars>>

\* the request succeeds
GenerateTitle ==
    /\ cpc = "running"
    /\ \E res \in {o \in Outcomes : o.ok /\ ~o.tool_pass} :
          /\ history' = generate_title_history(history, res)
          /\ title' = generate_title_result(res)
          /\ lastRes' = res
    /\ sent' = generate_title_request(history)
    /\ pre' = history
    /\ lastOp' = "title"
    /\ UNCHANGED <<cpc, input, thinkVars, clientVars, mcpVars>>

\* the request fails: .await.unwrap() panics
GenerateTitlePanic ==
    /\ cpc = "running"
    /\ \E res \in {o \in Outcomes : ~o.ok /\ ~o.tool_pass} : lastRes' = res
    /\ cpc' = "panicked"
    /\ sent' = generate_title_request(history)
    /\ pre' = history
    /\ lastOp' = "title"
    /\ UNCHANGED <<history, title, input, thinkVars, clientVars, mcpVars>>

ClearHistory ==
    /\ cpc = "running"
    /\ history' = clear_history(history)
    /\ pre' = history
    /\ lastOp' = "clear"
    /\ UNCHANGED <<cpc, lastRes, title, sent, input, thinkVars, clientVars, mcpVars>>

ChatNext == GenerateResponse \/ GenerateTitle \/ GenerateTitlePanic \/ ClearHistory

SpecChat == ChatInit /\ [][ChatNext]_vars

\* C15: generate_title leaves the session history as it was before the call,
\* whatever the history and whatever the backend answered: the instruction turn
\* and the answer go to a copy.
C15_TitleLeavesHistory ==
    lastOp = "title" => history = pre

C15_Witness ==
    /\ lastOp = "title"
    /\ lastRes.ok
    /\ sent = Append(pre, UserMessage(TitlePrompt))
    /\ Len(pre) = 2
    /\ history = pre

C17_ClearStartsFresh ==
    [][/\ lastOp' = "clear" => history' = <<>>
       /\ (lastOp = "clear" /\ lastOp' = "response" /\ lastRes'.ok) =>
              /\ Len(sent') = 1
              /\ sent'[1].role = "user"
              /\ Len(history') = 2
              /\ history'[1] = sent'[1]
              /\ history'[2].role = "assistant"
              /\ history'[2].content = StoredContent(lastRes'.text)]_vars

C17_Witness ==
    /\ lastOp = "clear"
    /\ Len(pre) = 4
    /\ history = <<>>

(***************************************************************************)
(* main (src/src/main.rs): the loop reading one line at a time             *)
(***************************************************************************)
\* the two reserved words, each one character of the alphabet
ExitWord == "exit"

TitleWord == "title"

\* what read_line hands over, the line terminator left out
StdinLines ==
    {<<>>, <<" ">>, <<ExitWord>>, <<" ", TitleWord>>, <<"a">>, <<"b", " ">>}

\* input == "exit": break
MainExit ==
    /\ cpc = "running"
    /\ \E line \in StdinLines :
          /\ Trim(line) = <<ExitWord>>
          /\ input' = Some(Trim(line))
    /\ cpc' = "exited"
    /\ UNCHANGED <<history, pre, lastOp, lastRes, title, sent, thinkVars,
                   clientVars, mcpVars>>

\* input.is_empty(): clear_history, and with no continue in that branch the
\* iteration goes on to generate_response(input)
MainEmptyLine ==
    /\ cpc = "running"
    /\ \E line \in StdinLines, res \in Outcomes :
          LET cleared == clear_history(history) IN
          /\ Trim(line) = <<>>
          /\ input' = Some(Trim(line))
          /\ sent' = generate_response_request(cleared, Trim(line))
          /\ history' = generate_response_history(cleared, Trim(line), res)
          /\ pre' = cleared
          /\ lastRes' = res
    /\ lastOp' = "response"
    /\ UNCHANGED <<cpc, title, thinkVars, clientVars, mcpVars>>

\* input == "title" and the request succeeds: the title is printed, continue
MainTitle ==
    /\ cpc = "running"
    /\ \E line \in StdinLines, res \in {o \in Outcomes : o.ok /\ ~o.tool_pass} :
          /\ Trim(line) = <<TitleWord>>
          /\ input' = Some(Trim(line))
          /\ history' = generate_title_history(history, res)
          /\ title' = generate_title_result(res)
          /\ lastRes' = res
    /\ sent' = generate_title_request(history)
    /\ pre' = history
    /\ lastOp' = "title"
    /\ UNCHANGED <<cpc, thinkVars, clientVars, mcpVars>>

\* input == "title" and the request fails: the unwrap in generate_title panics
\* in the task of main
MainTitlePanic ==
    /\ cpc = "running"
    /\ \E line \in StdinLines, res \in {o \in Outcomes : ~o.ok /\ ~o.tool_pass} :
          /\ Trim(line) = <<TitleWord>>
          /\ input' = Some(Trim(line))
          /\ lastRes' = res
    /\ cpc' = "panicked"
    /\ sent' = generate_title_request(history)
    /\ pre' = history
    /\ lastOp' = "title"
    /\ UNCHANGED <<history, title, thinkVars, clientVars, mcpVars>>

\* any other line: generate_response(input)
MainPromptLine ==
    /\ cpc = "running"
    /\ \E line \in StdinLines, res \in Outcomes :
          /\ Trim(line) \notin {<<>>, <<ExitWord>>, <<TitleWord>>}
          /\ res.ok => Len(history) + 2 <= 2 * MaxExchanges
          /\ input' = Some(Trim(line))
          /\ sent' = generate_response_request(history, Trim(line))
          /\ history' = generate_response_history(history, Trim(line), res)
          /\ lastRes' = res
    /\ pre' = history
    /\ lastOp' = "response"
    /\ UNCHANGED <<cpc, title, thinkVars, clientVars, mcpVars>>

MainNext ==
    \/ MainExit
    \/ MainEmptyLine
    \/ MainTitle
    \/ MainTitlePanic
    \/ MainPromptLine

\* the Chat of main starts as Chat::new leaves it
SpecMain == ChatInit /\ [][MainNext]_vars

(***************************************************************************)
(* Claims about the session history                                        *)
(***************************************************************************)
Roles(h) == [i \in 1..Len(h) |-> h[i].role]

\* C4: when the backend answers with a tool call and then a plain answer,
\* generate_response leaves history = pre-call history followed by
\* [user, assistant(with tool_calls), tool(result), assistant(final)].
C4_ToolTurnsInHistory ==
    (lastOp = "response" /\ lastRes.ok /\ lastRes.tool_pass) =>
        /\ Len(history) = Len(pre) + 4
        /\ SubSeq(history, 1, Len(pre)) = pre
        /\ SubSeq(Roles(history), Len(pre) + 1, Len(history))
              = <<"user", "assistant", "tool", "assistant">>
        /\ history[Len(pre) + 2].tool_calls # <<>>

\* C6: when the chat request of generate_response fails (connection failure,
\* non-success status, failure while receiving), history is what it was before
\* the call.
C6_FailureLeavesHistory ==
    (lastOp = "response" /\ ~lastRes.ok) => history = pre

C6_Witness ==
    /\ lastOp = "response"
    /\ ~lastRes.ok
    /\ lastRes.err = "receive"
    /\ Len(pre) = 2
    /\ history = pre

\* every user turn is directly followed by an assistant turn
NoDanglingUser(h) ==
    \A i \in 1..Len(h) :
        h[i].role = "user" => i < Len(h) /\ h[i + 1].role = "assistant"

\* every tool turn follows, through tool turns only, an assistant turn with tool_calls
NoOrphanTool(h) ==
    \A i \in 1..Len(h) :
        h[i].role = "tool" =>
            \E j \in 1..(i - 1) :
                /\ h[j].role = "assistant"
                /\ h[j].tool_calls # <<>>
                /\ \A k \in (j + 1)..(i - 1) : h[k].role = "tool"

\* C7: in every state reached by generate_response (succeeding or failing),
\* generate_title and clear_history calls, no user turn dangles and no tool turn
\* is orphaned.
C7_HistoryConsistent == NoDanglingUser(history) /\ NoOrphanTool(history)

C7_Witness ==
    /\ lastOp = "response"
    /\ ~lastRes.ok
    /\ lastRes.tool_pass
    /\ Roles(history) = <<"user", "assistant", "user", "assistant">>

(***************************************************************************)
(* Claims about the loop of main                                           *)
(***************************************************************************)
\* C12: a transport failure in any session operation the loop calls, the title
\* request of generate_title included, leaves the session usable: the loop was not
\* left by a panic and history is what it was before the operation.
C12_FailureLeavesSessionUsable ==
    (lastOp # "none" /\ ~lastRes.ok) => (cpc # "panicked" /\ history = pre)

\* C13: once main has handled an empty input line, history is empty: no chat
\* request was issued for the line and no turn was appended.
C13_EmptyLineOnlyClears ==
    (input = Some(<<>>)) => (history = <<>> /\ lastOp # "response")

(***************************************************************************)
(* OllamaClient (src/src/client.rs)                                        *)
(*                                                                         *)
(* A response body is a sequence of bytes.  One NDJSON line carrying a     *)
(* ChatResponse is two bytes, the object up to its closing brace and the   *)
(* closing brace, followed by a newline.                                   *)
(***************************************************************************)
NL == "\n"

\* {"message":{"content":..,"tool_calls":..},"done":..  without the closing brace:
\* content "a" or "b", or empty content and one tool call; done false (0) or true (1)
HeadTok == {"{a0", "{a1", "{b0", "{b1", "{w0", "{w1", "{u0", "{u1"}

PlainHeadTok == {"{a0", "{a1", "{b0", "{b1"}

FrameLine(h) == <<h, "}">>

\* a JSON object that is no ChatResponse
JunkLine == <<"{x", "}">>

BlankLine == <<>>

ContentOf(h) ==
    CASE h \in {"{a0", "{a1"} -> <<"a">>
      [] h \in {"{b0", "{b1"} -> <<"b">>
      [] OTHER -> <<>>

ToolCallsOf(h) ==
    CASE h \in {"{w0", "{w1"} -> <<"get_weather">>
      [] h \in {"{u0", "{u1"} -> <<"no_such_tool">>
      [] OTHER -> <<>>

DoneOf(h) == h \in {"{a1", "{b1", "{w1", "{u1"}

\* serde_json::from_str::<ChatResponse>(line)
from_str(line) ==
    IF Len(line) = 2 /\ line[1] \in HeadTok /\ line[2] = "}"
    THEN [ok |-> TRUE,
          message |-> [content |-> ContentOf(line[1]),
                       tool_calls |-> ToolCallsOf(line[1])],
          done |-> DoneOf(line[1])]
    ELSE [ok |-> FALSE,
          message |-> [content |-> <<>>, tool_calls |-> <<>>],
          done |-> FALSE]

LineKinds == {FrameLine(h) : h \in HeadTok} \cup {JunkLine, BlankLine}

PlainLineKinds == {FrameLine(h) : h \in PlainHeadTok} \cup {JunkLine, BlankLine}

RECURSIVE Wire(_)
\* the lines of a body, each followed by a newline
Wire(ls) == IF ls = <<>> THEN <<>> ELSE Head(ls) \o <<NL>> \o Wire(Tail(ls))

Bodies == {Wire(ls) : ls \in SeqsUpTo(LineKinds, MaxLines)}

PlainBodies == {Wire(ls) : ls \in SeqsUpTo(PlainLineKinds, MaxLines)}

RECURSIVE SplitFrom(_, _, _)
SplitFrom(c, i, cur) ==
    IF i > Len(c) THEN (IF cur = <<>> THEN <<>> ELSE <<cur>>)
    ELSE IF c[i] = NL THEN <<cur>> \o SplitFrom(c, i + 1, <<>>)
         ELSE SplitFrom(c, i + 1, Append(cur, c[i]))

\* str::lines of one chunk
Lines(c) == SplitFrom(c, 1, <<>>)

\* the loop body leaving the for loop on a line that does not decode
FoldLine_error_breaks(st, line) ==
    IF st.stop # "go" THEN st
    ELSE IF line = <<>> THEN st
    ELSE LET response == from_str(line) IN
         IF ~response.ok THEN [st EXCEPT !.stop = "break"]
         ELSE LET acc == st.acc \o response.message.content
                  calls == st.calls \o response.message.tool_calls
              IN  [acc |-> acc,
                   calls |-> calls,
                   stop |-> IF ~response.done THEN "go"
                            ELSE IF calls # <<>> THEN "tools" ELSE "break"]

\* the loop body assigning the content of the frame instead of appending it
FoldLine_content_assigned(st, line) ==
    IF st.stop # "go" THEN st
    ELSE IF line = <<>> THEN st
    ELSE LET response == from_str(line) IN
         IF ~response.ok THEN st
         ELSE LET acc == response.message.content
                  calls == st.calls \o response.message.tool_calls
              IN  [acc |-> acc,
                   calls |-> calls,
                   stop |-> IF ~response.done THEN "go"
                            ELSE IF calls # <<>> THEN "tools" ELSE "break"]

\* One pass of the body of `for line in text.lines()`.  stop is "go" while the loop
\* runs, "break" after a done frame with no tool call, "tools" after a done frame
\* with tool calls accumulated.
FoldLine(st, line) ==
    IF st.stop # "go" THEN st
    ELSE IF line = <<>> THEN st
    ELSE LET response == from_str(line) IN
         IF ~response.ok THEN st
         ELSE LET acc == st.acc \o response.message.content
                  calls == st.calls \o response.message.tool_calls
              IN  [acc |-> acc,
                   calls |-> calls,
                   stop |-> IF ~response.done THEN "go"
                            ELSE IF calls # <<>> THEN "tools" ELSE "break"]

RECURSIVE FoldLines(_, _, _)
FoldLines(st, ls, i) ==
    IF i > Len(ls) THEN st ELSE FoldLines(FoldLine(st, ls[i]), ls, i + 1)

\* the for loop over one chunk, from the accumulators as they stand
ProcessChunk(acc, calls, chunk) ==
    FoldLines([acc |-> acc, calls |-> calls, stop |-> "go"], Lines(chunk), 1)

RegisteredTools == {"get_weather", "calculate"}

NotImplemented == <<"Tool not implemented">>

\* execute_tool returning Err for a name it does not know
execute_tool_unknown_fails(name) ==
    CASE name = "get_weather" -> [ok |-> TRUE, val |-> <<"Weather">>]
      [] name = "calculate" -> [ok |-> TRUE, val |-> <<"Calculation">>]
      [] OTHER -> [ok |-> FALSE, val |-> <<"unknown tool">>]

\* OllamaClient::execute_tool: always Ok; the result text is one character
execute_tool(name) ==
    CASE name = "get_weather" -> [ok |-> TRUE, val |-> <<"Weather">>]
      [] name = "calculate" -> [ok |-> TRUE, val |-> <<"Calculation">>]
      [] OTHER -> [ok |-> TRUE, val |-> NotImplemented]

AllExecute(calls) == \A i \in 1..Len(calls) : execute_tool(calls[i]).ok

\* the calls run up to and including the first that fails
UntilFailure(calls) ==
    SubSeq(calls, 1,
           CHOOSE i \in 1..Len(calls) :
               /\ ~execute_tool(calls[i]).ok
               /\ \A j \in 1..(i - 1) : execute_tool(calls[j]).ok)

\* handle_tool_results_impl pushing the tool turns last call first
handle_tool_results_messages_reversed(calls) ==
    <<Message("assistant", <<>>, calls)>>
    \o [i \in 1..Len(calls) |->
          Message("tool", execute_tool(calls[Len(calls) + 1 - i]).val, <<>>)]

\* handle_tool_results_impl: the messages of the request it issues
handle_tool_results_messages(calls) ==
    <<Message("assistant", <<>>, calls)>>
    \o [i \in 1..Len(calls) |-> Message("tool", execute_tool(calls[i]).val, <<>>)]

InitialRequests == {<<UserMessage(<<"a">>)>>}

Init ==
    /\ kpc = "idle"
    /\ messages = <<>>
    /\ nreq = 0
    /\ body = <<>>
    /\ pos = 0
    /\ delivery = "none"
    /\ whole_lines = TRUE
    /\ accumulated_content = <<>>
    /\ current_tool_calls = <<>>
    /\ done_seen = FALSE
    /\ executed = <<>>
    /\ failure = "none"
    /\ ThinkIdle
    /\ ChatIdle
    /\ McpIdle

\* chat_stream_with_tools is called: the request is built and posted
ChatStreamWithTools ==
    /\ kpc = "idle"
    /\ messages' \in InitialRequests
    /\ nreq' = 1
    /\ kpc' = "sending"
    /\ UNCHANGED <<body, pos, delivery, whole_lines, accumulated_content,
                   current_tool_calls, done_seen, executed, failure, thinkVars,
                   chatVars, mcpVars>>

\* .send().await? fails
SendFails ==
    /\ kpc = "sending"
    /\ kpc' = "err"
    /\ failure' = "send"
    /\ UNCHANGED <<messages, nreq, body, pos, delivery, whole_lines,
                   accumulated_content, current_tool_calls, done_seen, executed,
                   thinkVars, chatVars, mcpVars>>

\* the status is no success
HttpError ==
    /\ kpc = "sending"
    /\ kpc' = "err"
    /\ failure' = "status"
    /\ UNCHANGED <<messages, nreq, body, pos, delivery, whole_lines,
                   accumulated_content, current_tool_calls, done_seen, executed,
                   thinkVars, chatVars, mcpVars>>

\* the response arrives; the accumulators of this call start empty
ResponseArrives ==
    /\ kpc = "sending"
    /\ body' \in (IF nreq < MaxRequests THEN Bodies ELSE PlainBodies)
    /\ kpc' = "streaming"
    /\ pos' = 0
    /\ delivery' = "none"
    /\ whole_lines' = TRUE
    /\ accumulated_content' = <<>>
    /\ current_tool_calls' = <<>>
    /\ done_seen' = FALSE
    /\ UNCHANGED <<messages, nreq, executed, failure, thinkVars, chatVars, mcpVars>>

NextDelivery(d) == IF d = "none" THEN "one" ELSE "several"

\* the chunk is one line and its terminator
WholeLine(chunk) ==
    /\ chunk # <<>>
    /\ chunk[Len(chunk)] = NL
    /\ \A i \in 1..(Len(chunk) - 1) : chunk[i] # NL

\* the stream of a call that reads no further, and current_tool_calls moved out
StreamDropped ==
    /\ body' = <<>>
    /\ pos' = 0
    /\ delivery' = "none"
    /\ whole_lines' = TRUE
    /\ current_tool_calls' = <<>>
    /\ done_seen' = FALSE

\* the locals of a call that has returned Err
LocalsDropped ==
    /\ StreamDropped
    /\ accumulated_content' = <<>>

\* stream.next() yields the next n bytes; the for loop runs over their lines, and
\* on a done frame with tool calls the tools are run and the continuation is issued
\* (current_tool_calls is moved into handle_tool_results, accumulated_content stays
\* as it is until the continuation has answered)
ReadChunk ==
    /\ kpc = "streaming"
    /\ \E n \in 1..(Len(body) - pos) :
         LET chunk == SubSeq(body, pos + 1, pos + n)
             st == ProcessChunk(accumulated_content, current_tool_calls, chunk)
         IN  IF st.stop # "tools"
             THEN /\ pos' = pos + n
                  /\ delivery' = NextDelivery(delivery)
                  /\ whole_lines' = (whole_lines /\ WholeLine(chunk))
                  /\ accumulated_content' = st.acc
                  /\ current_tool_calls' = st.calls
                  /\ done_seen' = (done_seen \/ st.stop = "break")
                  /\ UNCHANGED <<kpc, messages, nreq, body, executed, failure>>
             ELSE IF AllExecute(st.calls)
             THEN /\ executed' = st.calls \o st.calls
                  /\ messages' = handle_tool_results_messages(st.calls)
                  /\ nreq' = nreq + 1
                  /\ kpc' = "sending"
                  /\ StreamDropped
                  /\ accumulated_content' = st.acc
                  /\ UNCHANGED failure
             ELSE /\ executed' = UntilFailure(st.calls)
                  /\ kpc' = "err"
                  /\ failure' = "tool"
                  /\ LocalsDropped
                  /\ UNCHANGED <<messages, nreq>>
    /\ UNCHANGED <<thinkVars, chatVars, mcpVars>>

\* stream.next() yields Err: chunk? returns it
ChunkError ==
    /\ kpc = "streaming"
    /\ kpc' = "err"
    /\ failure' = "chunk"
    /\ LocalsDropped
    /\ UNCHANGED <<messages, nreq, executed, thinkVars, chatVars, mcpVars>>

\* stream.next() yields None: Ok(())
StreamEnds ==
    /\ kpc = "streaming"
    /\ pos = Len(body)
    /\ kpc' = "ok"
    /\ UNCHANGED <<messages, nreq, body, pos, delivery, whole_lines,
                   accumulated_content, current_tool_calls, done_seen, executed,
                   failure, thinkVars, chatVars, mcpVars>>

Next ==
    \/ ChatStreamWithTools
    \/ SendFails
    \/ HttpError
    \/ ResponseArrives
    \/ ReadChunk
    \/ ChunkError
    \/ StreamEnds

Spec == Init /\ [][Next]_vars

(***************************************************************************)
(* Claims about the stream loop and the tool pass                          *)
(***************************************************************************)
\* C1: once a frame with done=true has been processed, no further chunk is read
\* from the body and no later frame is folded into the accumulated content or the
\* tool-call list (the call may only return).
C1_NoReadAfterDone ==
    [][(kpc = "streaming" /\ done_seen /\ kpc' \notin {"ok", "err"}) =>
          /\ pos' = pos
          /\ accumulated_content' = accumulated_content
          /\ current_tool_calls' = current_tool_calls]_vars

\* what processing the frame with head h, delivered whole, leaves behind
FrameFolded(h) ==
    IF DoneOf(h) /\ ToolCallsOf(h) # <<>>
    THEN /\ kpc' = "sending"
         /\ nreq' = nreq + 1
         /\ messages'[1].tool_calls = ToolCallsOf(h)
    ELSE /\ kpc' = "streaming"
         /\ accumulated_content' = ContentOf(h)
         /\ current_tool_calls' = ToolCallsOf(h)
         /\ done_seen' = DoneOf(h)

\* C2: a line cut inside into two consecutive chunks decodes to the same single
\* frame as the line delivered whole.  The step looked at reads the second chunk:
\* the body is one line, its first chunk ended inside the line, and this step
\* reads the rest.
C2_SplitLineSameFrame ==
    [][\A h \in HeadTok :
          ( /\ kpc = "streaming"
            /\ body = FrameLine(h) \o <<NL>>
            /\ delivery = "one"
            /\ pos \in 1..(Len(FrameLine(h)) - 1)
            /\ kpc' # "err"
            /\ (pos' = Len(body) \/ kpc' = "sending") )
          => FrameFolded(h)]_vars

\* the same step for a line delivered whole in one chunk
WholeLineSameFrame ==
    [][\A h \in HeadTok :
          ( /\ kpc = "streaming"
            /\ body = FrameLine(h) \o <<NL>>
            /\ delivery = "none"
            /\ kpc' # "err"
            /\ (pos' = Len(body) \/ kpc' = "sending") )
          => FrameFolded(h)]_vars

\* C3: the continuation request carries the messages of the request that produced
\* the tool calls, followed by the assistant turn with its tool_calls, followed by
\* the tool-result turns.
C3_ContinuationCarriesHistory ==
    [][(nreq >= 1 /\ nreq' = nreq + 1) =>
          LET n == Len(messages) IN
          /\ Len(messages') >= n + 2
          /\ SubSeq(messages', 1, n) = messages
          /\ messages'[n + 1].role = "assistant"
          /\ messages'[n + 1].tool_calls # <<>>
          /\ \A i \in (n + 2)..Len(messages') : messages'[i].role = "tool"]_vars

\* C5: when the first response asks for tool calls and the second is a plain
\* answer (two requests, the second ended by a done frame, the call returned Ok),
\* each requested tool call was executed exactly once.
C5_EachCallExecutedOnce ==
    (kpc = "ok" /\ nreq = 2 /\ done_seen) =>
        executed = messages[1].tool_calls

\* C10: a tool call naming an unregistered tool never aborts the exchange: no call
\* ends in a tool failure, and every continuation request holds one tool turn per
\* requested call, in order, the turn of an unregistered tool carrying the
\* not-available payload and the turns of the other calls their results.
C10_UnknownToolContinues ==
    /\ failure # "tool"
    /\ nreq >= 2 =>
          LET calls == messages[1].tool_calls IN
          /\ calls # <<>>
          /\ Len(messages) = Len(calls) + 1
          /\ Len(executed) >= Len(calls)
          /\ \A i \in 1..Len(calls) :
                /\ messages[i + 1].role = "tool"
                /\ calls[i] \notin RegisteredTools
                      => messages[i + 1].content = NotImplemented
                /\ calls[i] \in RegisteredTools
                      => messages[i + 1].content # NotImplemented

C10_Witness ==
    /\ kpc = "ok"
    /\ nreq = 2
    /\ messages[1].tool_calls = <<"no_such_tool", "get_weather">>
    /\ messages[2].content = NotImplemented
    /\ messages[3].content = <<"Weather">>
    /\ accumulated_content = <<"a">>

\* the lines are frames, the last of them done=true and no other
EndsWithDone(ls) ==
    /\ ls # <<>>
    /\ \A i \in 1..Len(ls) :
          /\ from_str(ls[i]).ok
          /\ from_str(ls[i]).done <=> i = Len(ls)

RECURSIVE ContentsOf(_)
\* the content fields of the frames, concatenated in order
ContentsOf(ls) ==
    IF ls = <<>> THEN <<>> ELSE ContentOf(Head(ls)[1]) \o ContentsOf(Tail(ls))

\* C14: for a body of frames ending with its only done=true frame and delivered
\* one whole line per chunk, the content accumulated when the done frame has been
\* processed is the concatenation, in order, of the content of all its frames.
\* The step looked at reads the last line: it stays in the loop or, with tool
\* calls accumulated, hands over to the continuation.
C14_ContentConcatenated ==
    [][LET ls == Lines(body) IN
       ( /\ kpc = "streaming"
         /\ whole_lines
         /\ EndsWithDone(ls)
         /\ pos = Len(body) - (Len(ls[Len(ls)]) + 1)
         /\ \/ kpc' = "streaming" /\ pos' = Len(body)
            \/ kpc' = "sending" )
       => accumulated_content' = ContentsOf(ls)]_vars

C14_Witness ==
    /\ kpc = "streaming"
    /\ whole_lines
    /\ delivery = "several"
    /\ body = Wire(<<FrameLine("{a0"), FrameLine("{b1")>>)
    /\ pos = Len(body)
    /\ done_seen
    /\ accumulated_content = <<"a", "b">>

\* C18: a call never returns Ok with tool calls accumulated and not executed:
\* whether the response ended with a done=true frame or the byte stream ended
\* without one, accumulated tool calls were executed and a continuation issued.
C18_NoOkWithPendingCalls ==
    kpc = "ok" => current_tool_calls = <<>>

RECURSIVE CallsOf(_)
\* the tool calls of the frames among the lines, in order
CallsOf(ls) ==
    IF ls = <<>> THEN <<>>
    ELSE from_str(Head(ls)).message.tool_calls \o CallsOf(Tail(ls))

\* C19: in a tool pass the calls are run one after the other in the order they
\* arrived across the frames, and the continuation request holds one assistant
\* turn with all the tool_calls followed by exactly one tool turn per call, the
\* i-th holding the result of the i-th call.  The step looked at is the one that
\* hands over to the continuation; the arrival order is read off a body whose
\* chunks so far were whole lines.
C19_ToolPassInArrivalOrder ==
    [][(kpc = "streaming" /\ kpc' = "sending") =>
          LET calls == messages'[1].tool_calls
              ls == Lines(body)
          IN  /\ calls # <<>>
              /\ messages'[1].role = "assistant"
              /\ Len(messages') = Len(calls) + 1
              /\ \A i \in 1..Len(calls) :
                    /\ messages'[i + 1].role = "tool"
                    /\ messages'[i + 1].tool_calls = <<>>
                    /\ messages'[i + 1].content = execute_tool(calls[i]).val
              /\ Len(executed') >= Len(calls)
              /\ \A i \in 1..Len(executed') :
                    executed'[i] = calls[((i - 1) % Len(calls)) + 1]
              /\ whole_lines =>
                    \E k \in 1..Len(ls) :
                        /\ from_str(ls[k]).done
                        /\ calls = CallsOf(SubSeq(ls, 1, k))]_vars

C19_Witness ==
    /\ kpc = "sending"
    /\ nreq = 2
    /\ messages = <<Message("assistant", <<>>, <<"no_such_tool", "get_weather">>),
                    Message("tool", NotImplemented, <<>>),
                    Message("tool", <<"Weather">>, <<>>)>>
    /\ executed[1] = "no_such_tool"
    /\ executed[2] = "get_weather"

\* the lines without those that fail to decode (blank lines stay)
Decodable(ls) == SelectSeq(ls, LAMBDA l : l = <<>> \/ from_str(l).ok)

\* C20: a line that fails to decode neither ends the processing nor changes the
\* accumulated content or the tool-call list: whatever chunk a step reads, it
\* leaves what processing the same lines without the undecodable ones leaves,
\* the same accumulators, the same position in the loop and, when a done frame
\* with tool calls follows, the same continuation.
C20_BadLineIsSkipped ==
    [][(kpc = "streaming" /\ kpc' \in {"streaming", "sending"}) =>
          \E n \in 1..(Len(body) - pos) :
              LET ls == Lines(SubSeq(body, pos + 1, pos + n))
                  st == FoldLines([acc |-> accumulated_content,
                                   calls |-> current_tool_calls,
                                   stop |-> "go"], Decodable(ls), 1)
              IN  IF kpc' = "streaming"
                  THEN /\ pos' = pos + n
                       /\ st.stop # "tools"
                       /\ accumulated_content' = st.acc
                       /\ current_tool_calls' = st.calls
                       /\ done_seen' = (done_seen \/ st.stop = "break")
                  ELSE /\ st.stop = "tools"
                       /\ accumulated_content' = st.acc
                       /\ messages' = handle_tool_results_messages(st.calls)]_vars

C20_Witness ==
    /\ kpc = "streaming"
    /\ body = Wire(<<JunkLine, FrameLine("{a1")>>)
    /\ whole_lines
    /\ delivery = "several"
    /\ pos = Len(body)
    /\ accumulated_content = <<"a">>
    /\ current_tool_calls = <<>>
    /\ done_seen

(***************************************************************************)
(* Mcp (src/src/mcp.rs)                                                    *)
(*                                                                         *)
(* mcp.json is an object of entries.  The HashMap it is read into hands    *)
(* the entries over in any order, so the entries are a sequence in any     *)
(* order.  What a tool server answers is an input of each entry.           *)
(***************************************************************************)
\* one value of the object: its "type", "url" and "command" members, None when
\* the member is missing or no string
JsonEntry(type, url, command) ==
    [type |-> type, url |-> url, command |-> command]

\* no "type" member, or one that is no string
NoType == [some |-> FALSE, val |-> ""]

JsonEntries ==
    {JsonEntry(Some("sse"), Some(<<"u">>), None),
     JsonEntry(Some("SSE"), Some(<<"u">>), None),
     JsonEntry(Some("sse"), None, Some(<<"c">>)),
     JsonEntry(Some("stdio"), None, Some(<<"c">>)),
     JsonEntry(Some("stdio"), Some(<<"u">>), None),
     JsonEntry(Some("ws"), Some(<<"u">>), Some(<<"c">>)),
     JsonEntry(NoType, Some(<<"u">>), Some(<<"c">>))}

\* mcp.json: missing, there but not to be opened, no JSON object, or an object
SettingFiles ==
    {[state |-> st, entries |-> <<>>] : st \in {"absent", "unreadable", "malformed"}}
    \cup
    {[state |-> "object", entries |-> es] : es \in SeqsUpTo(JsonEntries, MaxEntries)}

\* the McpSetting built from one value of the object
McpSetting(value) ==
    [connection_type |-> IF value.type.some THEN value.type.val ELSE "",
     url |-> IF value.url.some THEN Some(value.url.val \o <<"/sse">>) ELSE None,
     command |-> value.command]

\* load_setting_file: the settings, or a panic (File::open(..).unwrap(),
\* from_str(..).expect(..))
load_setting_file(file) ==
    CASE file.state = "absent" -> [ok |-> TRUE, settings |-> <<>>]
      [] file.state = "object" ->
            [ok |-> TRUE,
             settings |-> [i \in 1..Len(file.entries) |-> McpSetting(file.entries[i])]]
      [] OTHER -> [ok |-> FALSE, settings |-> <<>>]

\* str::to_lowercase on the connection types
to_lowercase(t) ==
    CASE t = "SSE" -> "sse"
      [] OTHER -> t

ToolLists == {<<>>, <<"t1">>, <<"t2", "t1">>}

\* how far the connection to a tool server gets: the transport fails, the
\* handshake (serve) fails, list_tools fails, or the tools are listed
ServerAnswers ==
    {[stage |-> st, tools |-> <<>>] : st \in {"connect", "handshake", "list"}}
    \cup
    {[stage |-> "ok", tools |-> tl] : tl \in ToolLists}

\* an entry for which no connection is tried
NotTried == [stage |-> "skipped", tools |-> <<>>]

\* add_mcp_server_sse forgetting the tools of earlier entries when it gives up
add_mcp_server_sse_clears(ts, answer) ==
    IF answer.stage = "ok" THEN ts \o answer.tools ELSE <<>>

\* Mcp::add_mcp_server_sse: self.tools after the call
add_mcp_server_sse(ts, answer) ==
    IF answer.stage = "ok" THEN ts \o answer.tools ELSE ts

\* Mcp::add_mcp_server_stdio: self.tools after the call
add_mcp_server_stdio(ts, answer) ==
    IF answer.stage = "ok" THEN ts \o answer.tools ELSE ts

McpInit ==
    /\ mpc = "start"
    /\ mcp_settings = <<>>
    /\ idx = 0
    /\ tools = <<>>
    /\ served = <<>>
    /\ ThinkIdle
    /\ ChatIdle
    /\ ClientIdle

\* load_setting_file returns the settings
LoadSettingFile ==
    /\ mpc = "start"
    /\ \E file \in SettingFiles :
          /\ load_setting_file(file).ok
          /\ mcp_settings' = load_setting_file(file).settings
    /\ mpc' = "loop"
    /\ idx' = 1
    /\ UNCHANGED <<tools, served, thinkVars, chatVars, clientVars>>

\* load_setting_file panics
LoadSettingFilePanics ==
    /\ mpc = "start"
    /\ \E file \in SettingFiles : ~load_setting_file(file).ok
    /\ mpc' = "panicked"
    /\ UNCHANGED <<mcp_settings, idx, tools, served, thinkVars, chatVars,
                   clientVars>>

InLoop == mpc = "loop" /\ idx <= Len(mcp_settings)

\* "sse" without url: continue
SseWithoutUrl ==
    /\ InLoop
    /\ to_lowercase(mcp_settings[idx].connection_type) = "sse"
    /\ ~mcp_settings[idx].url.some
    /\ idx' = idx + 1
    /\ served' = Append(served, NotTried)
    /\ UNCHANGED <<mpc, mcp_settings, tools, thinkVars, chatVars, clientVars>>

\* "sse" with url: add_mcp_server_sse
AddMcpServerSse ==
    /\ InLoop
    /\ to_lowercase(mcp_settings[idx].connection_type) = "sse"
    /\ mcp_settings[idx].url.some
    /\ \E answer \in ServerAnswers :
          /\ tools' = add_mcp_server_sse(tools, answer)
          /\ served' = Append(served, answer)
    /\ idx' = idx + 1
    /\ UNCHANGED <<mpc, mcp_settings, thinkVars, chatVars, clientVars>>

\* "stdio" without command: continue
StdioWithoutCommand ==
    /\ InLoop
    /\ to_lowercase(mcp_settings[idx].connection_type) = "stdio"
    /\ ~mcp_settings[idx].command.some
    /\ idx' = idx + 1
    /\ served' = Append(served, NotTried)
    /\ UNCHANGED <<mpc, mcp_settings, tools, thinkVars, chatVars, clientVars>>

\* "stdio" with command: add_mcp_server_stdio
AddMcpServerStdio ==
    /\ InLoop
    /\ to_lowercase(mcp_settings[idx].connection_type) = "stdio"
    /\ mcp_settings[idx].command.some
    /\ \E answer \in ServerAnswers :
          /\ tools' = add_mcp_server_stdio(tools, answer)
          /\ served' = Append(served, answer)
    /\ idx' = idx + 1
    /\ UNCHANGED <<mpc, mcp_settings, thinkVars, chatVars, clientVars>>

\* any other connection type: a message, nothing else
UnsupportedType ==
    /\ InLoop
    /\ to_lowercase(mcp_settings[idx].connection_type) \notin {"sse", "stdio"}
    /\ idx' = idx + 1
    /\ served' = Append(served, NotTried)
    /\ UNCHANGED <<mpc, mcp_settings, tools, thinkVars, chatVars, clientVars>>

\* the for loop is through: load_setting returns
LoadSettingReturns ==
    /\ mpc = "loop"
    /\ idx > Len(mcp_settings)
    /\ mpc' = "returned"
    /\ UNCHANGED <<mcp_settings, idx, tools, served, thinkVars, chatVars,
                   clientVars>>

McpNext ==
    \/ LoadSettingFile
    \/ LoadSettingFilePanics
    \/ SseWithoutUrl
    \/ AddMcpServerSse
    \/ StdioWithoutCommand
    \/ AddMcpServerStdio
    \/ UnsupportedType
    \/ LoadSettingReturns

SpecMcp == McpInit /\ [][McpNext]_vars

\* load_setting awaits one server after the other; every await comes back
SpecMcpLive == SpecMcp /\ WF_vars(McpNext)

(***************************************************************************)
(* Claims about load_setting                                               *)
(***************************************************************************)
RECURSIVE ToolsListed(_)
\* the tools of the servers that listed theirs, in the order of the entries
ToolsListed(sv) ==
    IF sv = <<>> THEN <<>>
    ELSE (IF Head(sv).stage = "ok" THEN Head(sv).tools ELSE <<>>)
         \o ToolsListed(Tail(sv))

\* the entry names a supported connection type and carries what that type needs
Connectable(setting) ==
    \/ to_lowercase(setting.connection_type) = "sse" /\ setting.url.some
    \/ to_lowercase(setting.connection_type) = "stdio" /\ setting.command.some

\* C21: once the settings are read, load_setting takes every entry and returns.
\* An entry with an unsupported connection type or without its url/command is
\* not tried, and one whose connection, handshake or tool listing fails adds
\* nothing; neither stops the loop: the entries before idx have all been taken,
\* tools is exactly the tools of the entries that listed theirs, in order, the
\* call returns only after the last entry, and it does return.
C21_EveryEntryTaken ==
    /\ [](mpc \in {"loop", "returned"} =>
            /\ Len(served) = idx - 1
            /\ idx <= Len(mcp_settings) + 1
            /\ \A i \in 1..Len(served) :
                  (served[i] = NotTried) <=> ~Connectable(mcp_settings[i])
            /\ tools = ToolsListed(served))
    /\ [](mpc = "returned" => idx = Len(mcp_settings) + 1)
    /\ [](mpc = "panicked" => idx = 0)
    /\ (mpc = "loop" ~> mpc = "returned")

C21_Witness ==
    /\ mpc = "returned"
    /\ Len(mcp_settings) = 2
    /\ served[1].stage = "connect"
    /\ served[2].stage = "ok"
    /\ mcp_settings[2].connection_type = "stdio"
    /\ tools = <<"t2", "t1">>

====
